---- MODULE Spec2Model ----
(***************************************************************************)
(* Team pipeline phase state machine.                                      *)
(*                                                                         *)
(*   src/src/hooks/team-pipeline/state.ts      initTeamPipelineState,      *)
(*                                             markTeamPhase               *)
(*   src/src/__tests__/slack-socket.test.ts    ALLOWED, isAllowedTransition*)
(*     (lines 216-308)                         hasRequiredArtifactsForPhase*)
(*                                             transitionTeamPhase,        *)
(*                                             requestTeamCancel           *)
(*                                                                         *)
(* A nullable value (T | null) and an optional argument (T | undefined)    *)
(* are sequences of length at most one: <<>> is null / undefined, <<v>> is *)
(* the value v.  A timestamp is a reading of a logical clock that advances *)
(* with every call that reads it.                                          *)
(***************************************************************************)
EXTENDS Integers, Sequences, FiniteSets, TLC

VARIABLES
    state,   \* the TeamPipelineState document the driver holds
    call,    \* the last call: operation, arguments, input document, result
    clock,   \* the next value nowIso() returns
    store,   \* the state repository: one document or nothing per key
    mutator  \* per concurrent mutator: the document it read and the one it
             \* computed from it, while it is between its read and its write

vars == <<state, call, clock, store, mutator>>

----------------------------------------------------------------------------
(* Bounds of the model *)

\* phase_history is never truncated; a call that would make it longer than
\* this is not issued.
MaxHistory == 6

\* No more than this many cancel requests are issued in a run.
MaxCancels == 2

\* History bound and cancel bound of the runs that exhaust the repair loop.
MaxRetryHistory == 15

MaxRetryCancels == 1

\* Direct markTeamPhase runs: the document handed in has been through at most
\* this many repair attempts, and at most MaxMarkSteps calls follow.
MaxMarkedFixes == 3

MaxMarkSteps == 2

\* Runs against the state repository: the clock is read at most up to this
\* value, and the document's history stays within MaxStoreHistory entries.
MaxStoreClock == 3

MaxStoreHistory == 3

\* Runs without cancel requests: no request is issued that would make the
\* history longer than this.
MaxLiveHistory == 18

\* Two mutators on one session: each computation and each write reads the
\* clock, and none is made once the clock has reached this value.
MaxRaceClock == 8

----------------------------------------------------------------------------
(* Values *)

NULL == <<>>

Some(v) == <<v>>

\* JavaScript truthiness of a `string | null | undefined` value.
Truthy(v) == v # NULL /\ v[1] # ""

Phases ==
    {"team-plan", "team-prd", "team-exec", "team-verify", "team-fix",
     "complete", "failed", "cancelled"}

\* Values of the optional `reason` argument a caller passes.
Reasons == {NULL, Some(""), Some("manual")}

\* Values the planning stages store in artifacts.plan_path / prd_path.
PlanPaths == {NULL, Some(""), Some("plan.md")}
PrdPaths == {NULL, Some("prd.md")}

\* Values the verifier stores in fix_loop.last_failure_reason.
FailureReasons == {NULL, Some("verify-failed")}

\* Values the executor stores in execution.tasks_total / tasks_completed.
TaskCounts == {0, 1}

TEAM_PIPELINE_SCHEMA_VERSION == 1

DefaultMaxIterations == 25

DefaultMaxAttempts == 3

----------------------------------------------------------------------------
(* state.ts: initTeamPipelineState *)

\* The optional `options` argument: each of its two fields may be left out.
NoOptions == [project_path |-> NULL, max_iterations |-> NULL]

\* value ?? fallback
OrElse(value, fallback) == IF value = NULL THEN fallback ELSE value[1]

\* Variant: the new document is born completed.
initTeamPipelineState_Completed(directory, sessionId, options, ts) ==
    [ schema_version |-> TEAM_PIPELINE_SCHEMA_VERSION,
      mode           |-> "team",
      active         |-> TRUE,
      session_id     |-> sessionId,
      project_path   |-> OrElse(options.project_path, directory),
      phase          |-> "team-plan",
      phase_history  |-> << [phase |-> "team-plan", entered_at |-> ts] >>,
      iteration      |-> 1,
      max_iterations |-> OrElse(options.max_iterations, DefaultMaxIterations),
      artifacts      |-> [ plan_path |-> NULL,
                           prd_path |-> NULL,
                           verify_report_path |-> NULL ],
      execution      |-> [ workers_total |-> 0,
                           workers_active |-> 0,
                           tasks_total |-> 0,
                           tasks_completed |-> 0,
                           tasks_failed |-> 0 ],
      fix_loop       |-> [ attempt |-> 0,
                           max_attempts |-> DefaultMaxAttempts,
                           last_failure_reason |-> NULL ],
      cancel         |-> [ requested |-> FALSE,
                           requested_at |-> NULL,
                           preserve_for_resume |-> FALSE ],
      started_at     |-> ts,
      updated_at     |-> ts,
      completed_at   |-> Some(ts) ]

initTeamPipelineState(directory, sessionId, options, ts) ==
    [ schema_version |-> TEAM_PIPELINE_SCHEMA_VERSION,
      mode           |-> "team",
      active         |-> TRUE,
      session_id     |-> sessionId,
      project_path   |-> OrElse(options.project_path, directory),
      phase          |-> "team-plan",
      phase_history  |-> << [phase |-> "team-plan", entered_at |-> ts] >>,
      iteration      |-> 1,
      max_iterations |-> OrElse(options.max_iterations, DefaultMaxIterations),
      artifacts      |-> [ plan_path |-> NULL,
                           prd_path |-> NULL,
                           verify_report_path |-> NULL ],
      execution      |-> [ workers_total |-> 0,
                           workers_active |-> 0,
                           tasks_total |-> 0,
                           tasks_completed |-> 0,
                           tasks_failed |-> 0 ],
      fix_loop       |-> [ attempt |-> 0,
                           max_attempts |-> DefaultMaxAttempts,
                           last_failure_reason |-> NULL ],
      cancel         |-> [ requested |-> FALSE,
                           requested_at |-> NULL,
                           preserve_for_resume |-> FALSE ],
      started_at     |-> ts,
      updated_at     |-> ts,
      completed_at   |-> NULL ]

----------------------------------------------------------------------------
(* state.ts: markTeamPhase *)

\* { phase, entered_at, ...(reason ? { reason } : {}) }
HistoryEntry(phase, now, reason) ==
    IF Truthy(reason)
    THEN [phase |-> phase, entered_at |-> now, reason |-> reason[1]]
    ELSE [phase |-> phase, entered_at |-> now]

\* Variant: complete does not count as terminal.
IsTerminalPhase_OnlyFailures(phase) == phase \in {"failed", "cancelled"}

\* nextPhase === 'complete' || nextPhase === 'failed' || nextPhase === 'cancelled'
IsTerminalPhase(phase) == phase \in {"complete", "failed", "cancelled"}

\* Variant: the team-fix exception is dropped.
IsNoOp_NoException(s, nextPhase) == s.phase = nextPhase

\* state.phase === nextPhase && nextPhase !== 'team-fix'
IsNoOp(s, nextPhase) == s.phase = nextPhase /\ nextPhase # "team-fix"

\* Variant: the budget counts as exceeded once the ceiling is reached.
FixLoopExceeded_AtCeiling(fix_loop) ==
    fix_loop.attempt >= fix_loop.max_attempts

\* Variant: the budget is never found exceeded.
FixLoopExceeded_Never(fix_loop) == FALSE

\* updated.fix_loop.attempt > updated.fix_loop.max_attempts
FixLoopExceeded(fix_loop) == fix_loop.attempt > fix_loop.max_attempts

\* Variant: a repair attempt counts twice.
NextAttempt_Twice(attempt) == attempt + 2

\* updated.fix_loop.attempt + 1
NextAttempt(attempt) == attempt + 1

\* Variant: entering a terminal phase does not stamp completed_at.
MarkUpdated_NoCompletedAt(s, nextPhase, reason, now) ==
    [ s EXCEPT
        !.phase = nextPhase,
        !.phase_history = Append(@, HistoryEntry(nextPhase, now, reason)),
        !.active = IF IsTerminalPhase(nextPhase) THEN FALSE ELSE @,
        !.fix_loop.attempt = IF nextPhase = "team-fix" THEN NextAttempt(@) ELSE @,
        !.updated_at = now ]

\* Variant: entering a non-terminal phase re-activates the document.
MarkUpdated_Reactivates(s, nextPhase, reason, now) ==
    [ s EXCEPT
        !.phase = nextPhase,
        !.phase_history = Append(@, HistoryEntry(nextPhase, now, reason)),
        !.active = ~ IsTerminalPhase(nextPhase),
        !.completed_at = IF IsTerminalPhase(nextPhase) THEN Some(now) ELSE NULL,
        !.fix_loop.attempt = IF nextPhase = "team-fix" THEN NextAttempt(@) ELSE @,
        !.updated_at = now ]

\* The document `updated` of markTeamPhase, just before the retry-bound check.
MarkUpdated(s, nextPhase, reason, now) ==
    [ s EXCEPT
        !.phase = nextPhase,
        !.phase_history = Append(@, HistoryEntry(nextPhase, now, reason)),
        !.active = IF IsTerminalPhase(nextPhase) THEN FALSE ELSE @,
        !.completed_at = IF IsTerminalPhase(nextPhase) THEN Some(now) ELSE @,
        !.fix_loop.attempt = IF nextPhase = "team-fix" THEN NextAttempt(@) ELSE @,
        !.updated_at = now ]

\* Variant: the synthesized failed document keeps the active flag it had.
MarkFailed_KeepsActive(updated, now) ==
    [ updated EXCEPT
        !.phase = "failed",
        !.completed_at = Some(now),
        !.updated_at = now,
        !.fix_loop.last_failure_reason =
            IF @ = NULL THEN Some("fix-loop-max-attempts-exceeded") ELSE @,
        !.phase_history =
            Append(@, [ phase |-> "failed",
                        entered_at |-> now,
                        reason |-> "fix-loop-max-attempts-exceeded" ]) ]

\* Variant: the synthesized failed entry takes the place of the requested
\* phase's entry.
MarkFailed_ReplacesEntry(updated, now) ==
    [ updated EXCEPT
        !.phase = "failed",
        !.active = FALSE,
        !.completed_at = Some(now),
        !.updated_at = now,
        !.fix_loop.last_failure_reason =
            IF @ = NULL THEN Some("fix-loop-max-attempts-exceeded") ELSE @,
        !.phase_history =
            Append(SubSeq(@, 1, Len(@) - 1),
                   [ phase |-> "failed",
                     entered_at |-> now,
                     reason |-> "fix-loop-max-attempts-exceeded" ]) ]

\* Variant: no history entry is written for the synthesized failure.
MarkFailed_NoEntry(updated, now) ==
    [ updated EXCEPT
        !.phase = "failed",
        !.active = FALSE,
        !.completed_at = Some(now),
        !.updated_at = now,
        !.fix_loop.last_failure_reason =
            IF @ = NULL THEN Some("fix-loop-max-attempts-exceeded") ELSE @ ]

\* The document `failed` of markTeamPhase.
MarkFailed(updated, now) ==
    [ updated EXCEPT
        !.phase = "failed",
        !.active = FALSE,
        !.completed_at = Some(now),
        !.updated_at = now,
        !.fix_loop.last_failure_reason =
            IF @ = NULL THEN Some("fix-loop-max-attempts-exceeded") ELSE @,
        !.phase_history =
            Append(@, [ phase |-> "failed",
                        entered_at |-> now,
                        reason |-> "fix-loop-max-attempts-exceeded" ]) ]

\* Variant: the retry bound is checked before the no-op short-circuit.
markTeamPhase_BoundFirst(s, nextPhase, reason, now) ==
    LET updated == IF IsNoOp(s, nextPhase)
                   THEN s
                   ELSE MarkUpdated(s, nextPhase, reason, now) IN
    IF FixLoopExceeded(updated.fix_loop)
    THEN [ ok |-> FALSE,
           state |-> MarkFailed(updated, now),
           reason |-> Some("Fix loop exceeded max_attempts") ]
    ELSE [ok |-> TRUE, state |-> updated, reason |-> NULL]

\* Variant: the retry bound is checked only on entry to team-fix.
markTeamPhase_BoundOnFixOnly(s, nextPhase, reason, now) ==
    IF IsNoOp(s, nextPhase)
    THEN [ok |-> TRUE, state |-> s, reason |-> NULL]
    ELSE LET updated == MarkUpdated(s, nextPhase, reason, now) IN
         IF nextPhase = "team-fix" /\ FixLoopExceeded(updated.fix_loop)
         THEN [ ok |-> FALSE,
                state |-> MarkFailed(updated, now),
                reason |-> Some("Fix loop exceeded max_attempts") ]
         ELSE [ok |-> TRUE, state |-> updated, reason |-> NULL]

markTeamPhase(s, nextPhase, reason, now) ==
    IF IsNoOp(s, nextPhase)
    THEN [ok |-> TRUE, state |-> s, reason |-> NULL]
    ELSE LET updated == MarkUpdated(s, nextPhase, reason, now) IN
         IF FixLoopExceeded(updated.fix_loop)
         THEN [ ok |-> FALSE,
                state |-> MarkFailed(updated, now),
                reason |-> Some("Fix loop exceeded max_attempts") ]
         ELSE [ok |-> TRUE, state |-> updated, reason |-> NULL]

----------------------------------------------------------------------------
(* transitionTeamPhase and requestTeamCancel *)

\* Variant: the team-plan row also lists team-exec.
ALLOWED_SkipPrd(from) ==
    CASE from = "team-plan"   -> <<"team-prd", "team-exec">>
      [] from = "team-prd"    -> <<"team-exec">>
      [] from = "team-exec"   -> <<"team-verify">>
      [] from = "team-verify" -> <<"team-fix", "complete", "failed">>
      [] from = "team-fix"    -> <<"team-exec", "team-verify", "complete", "failed">>
      [] from = "complete"    -> <<>>
      [] from = "failed"      -> <<>>
      [] from = "cancelled"   -> <<"team-plan", "team-exec">>

\* Variant: the team-fix row also lists team-fix.
ALLOWED_FixRepeats(from) ==
    CASE from = "team-plan"   -> <<"team-prd">>
      [] from = "team-prd"    -> <<"team-exec">>
      [] from = "team-exec"   -> <<"team-verify">>
      [] from = "team-verify" -> <<"team-fix", "complete", "failed">>
      [] from = "team-fix"    -> <<"team-fix", "team-exec", "team-verify",
                                   "complete", "failed">>
      [] from = "complete"    -> <<>>
      [] from = "failed"      -> <<>>
      [] from = "cancelled"   -> <<"team-plan", "team-exec">>

\* Variant: the team-verify row also lists cancelled.
ALLOWED_VerifyCancels(from) ==
    CASE from = "team-plan"   -> <<"team-prd">>
      [] from = "team-prd"    -> <<"team-exec">>
      [] from = "team-exec"   -> <<"team-verify">>
      [] from = "team-verify" -> <<"team-fix", "complete", "failed",
                                   "cancelled">>
      [] from = "team-fix"    -> <<"team-exec", "team-verify", "complete", "failed">>
      [] from = "complete"    -> <<>>
      [] from = "failed"      -> <<>>
      [] from = "cancelled"   -> <<"team-plan", "team-exec">>

ALLOWED(from) ==
    CASE from = "team-plan"   -> <<"team-prd">>
      [] from = "team-prd"    -> <<"team-exec">>
      [] from = "team-exec"   -> <<"team-verify">>
      [] from = "team-verify" -> <<"team-fix", "complete", "failed">>
      [] from = "team-fix"    -> <<"team-exec", "team-verify", "complete", "failed">>
      [] from = "complete"    -> <<>>
      [] from = "failed"      -> <<>>
      [] from = "cancelled"   -> <<"team-plan", "team-exec">>

\* Variant: a request for the current phase counts as allowed.
isAllowedTransition_OrSame(from, to) ==
    \/ from = to
    \/ \E i \in 1..Len(ALLOWED(from)) : ALLOWED(from)[i] = to

isAllowedTransition(from, to) ==
    \E i \in 1..Len(ALLOWED(from)) : ALLOWED(from)[i] = to

\* Variant: team-verify does not ask for tasks_total > 0.
hasRequiredArtifactsForPhase_AnyTotal(s, next) ==
    IF next = "team-exec"
    THEN Truthy(s.artifacts.plan_path) \/ Truthy(s.artifacts.prd_path)
    ELSE IF next = "team-verify"
    THEN s.execution.tasks_completed >= s.execution.tasks_total
    ELSE TRUE

hasRequiredArtifactsForPhase(s, next) ==
    IF next = "team-exec"
    THEN Truthy(s.artifacts.plan_path) \/ Truthy(s.artifacts.prd_path)
    ELSE IF next = "team-verify"
    THEN /\ s.execution.tasks_total > 0
         /\ s.execution.tasks_completed >= s.execution.tasks_total
    ELSE TRUE

IllegalTransitionReason(from, to) ==
    Some("Illegal transition: " \o from \o " -> " \o to)

\* Variant: a guard failure carries no reason.
GuardFailedReason_Missing(from, to) == NULL

GuardFailedReason(from, to) ==
    Some("Guard failed for transition: " \o from \o " -> " \o to)

CannotResumeReason ==
    Some("Cannot resume from cancelled: preserve_for_resume is not set")

\* Variant: completed_at is not cleared.
Resumed_KeepsCompletedAt(s) == [s EXCEPT !.active = TRUE]

\* Variant: a resume starts the repair loop afresh.
Resumed_ResetsAttempt(s) ==
    [s EXCEPT !.active = TRUE, !.completed_at = NULL, !.fix_loop.attempt = 0]

\* Variant: a resume wipes the cancel record.
Resumed_ClearsCancel(s) ==
    [ s EXCEPT !.active = TRUE,
               !.completed_at = NULL,
               !.cancel = [ requested |-> FALSE,
                            requested_at |-> NULL,
                            preserve_for_resume |-> FALSE ] ]

\* { ...state, active: true, completed_at: null }
Resumed(s) == [s EXCEPT !.active = TRUE, !.completed_at = NULL]

\* reason ?? 'resumed-from-cancelled'
ResumeReason(reason) ==
    IF reason = NULL THEN Some("resumed-from-cancelled") ELSE reason

\* !state.cancel.preserve_for_resume
ResumeRefused(s) == ~ s.cancel.preserve_for_resume

\* Variant: the document is re-activated before the flag is checked.
transitionTeamPhase_ResumesFirst(s, next, reason, now) ==
    IF ~ isAllowedTransition(s.phase, next)
    THEN [ ok |-> FALSE, state |-> s,
           reason |-> IllegalTransitionReason(s.phase, next) ]
    ELSE IF s.phase = "cancelled"
    THEN IF ResumeRefused(s)
         THEN [ ok |-> FALSE, state |-> Resumed(s),
                reason |-> CannotResumeReason ]
         ELSE markTeamPhase(Resumed(s), next, ResumeReason(reason), now)
    ELSE IF ~ hasRequiredArtifactsForPhase(s, next)
    THEN [ ok |-> FALSE, state |-> s,
           reason |-> GuardFailedReason(s.phase, next) ]
    ELSE markTeamPhase(s, next, reason, now)

\* Variant: a request for the current phase is handed to markTeamPhase
\* before the table is consulted.
transitionTeamPhase_NoOpFirst(s, next, reason, now) ==
    IF IsNoOp(s, next)
    THEN markTeamPhase(s, next, reason, now)
    ELSE IF ~ isAllowedTransition(s.phase, next)
    THEN [ ok |-> FALSE, state |-> s,
           reason |-> IllegalTransitionReason(s.phase, next) ]
    ELSE IF s.phase = "cancelled"
    THEN IF ResumeRefused(s)
         THEN [ok |-> FALSE, state |-> s, reason |-> CannotResumeReason]
         ELSE markTeamPhase(Resumed(s), next, ResumeReason(reason), now)
    ELSE IF ~ hasRequiredArtifactsForPhase(s, next)
    THEN [ ok |-> FALSE, state |-> s,
           reason |-> GuardFailedReason(s.phase, next) ]
    ELSE markTeamPhase(s, next, reason, now)

\* Variant: the readiness guards are evaluated before the resume branch.
transitionTeamPhase_GuardsResume(s, next, reason, now) ==
    IF ~ isAllowedTransition(s.phase, next)
    THEN [ ok |-> FALSE, state |-> s,
           reason |-> IllegalTransitionReason(s.phase, next) ]
    ELSE IF ~ hasRequiredArtifactsForPhase(s, next)
    THEN [ ok |-> FALSE, state |-> s,
           reason |-> GuardFailedReason(s.phase, next) ]
    ELSE IF s.phase = "cancelled"
    THEN IF ResumeRefused(s)
         THEN [ok |-> FALSE, state |-> s, reason |-> CannotResumeReason]
         ELSE markTeamPhase(Resumed(s), next, ResumeReason(reason), now)
    ELSE markTeamPhase(s, next, reason, now)

transitionTeamPhase(s, next, reason, now) ==
    IF ~ isAllowedTransition(s.phase, next)
    THEN [ ok |-> FALSE, state |-> s,
           reason |-> IllegalTransitionReason(s.phase, next) ]
    ELSE IF s.phase = "cancelled"
    THEN IF ResumeRefused(s)
         THEN [ok |-> FALSE, state |-> s, reason |-> CannotResumeReason]
         ELSE markTeamPhase(Resumed(s), next, ResumeReason(reason), now)
    ELSE IF ~ hasRequiredArtifactsForPhase(s, next)
    THEN [ ok |-> FALSE, state |-> s,
           reason |-> GuardFailedReason(s.phase, next) ]
    ELSE markTeamPhase(s, next, reason, now)

\* preserveForResume = true: the default of an omitted argument
PreserveArgument(preserveForResume) ==
    IF preserveForResume = NULL THEN TRUE ELSE preserveForResume[1]

\* Variant: a complete or failed document is left as it is.
requestTeamCancel_SparesTerminal(s, preserveForResume, now) ==
    IF s.phase \in {"complete", "failed"}
    THEN s
    ELSE [ s EXCEPT
             !.cancel = [ @ EXCEPT !.requested = TRUE,
                                   !.requested_at = Some(now),
                                   !.preserve_for_resume =
                                       PreserveArgument(preserveForResume) ],
             !.phase = "cancelled",
             !.active = FALSE,
             !.completed_at = Some(now),
             !.updated_at = now,
             !.phase_history =
                 Append(@, [ phase |-> "cancelled",
                             entered_at |-> now,
                             reason |-> "cancel-requested" ]) ]

\* Variant: a cancel of a complete or failed document is never resumable.
requestTeamCancel_TerminalNotResumable(s, preserveForResume, now) ==
    [ s EXCEPT
        !.cancel = [ @ EXCEPT !.requested = TRUE,
                              !.requested_at = Some(now),
                              !.preserve_for_resume =
                                  /\ s.phase \notin {"complete", "failed"}
                                  /\ PreserveArgument(preserveForResume) ],
        !.phase = "cancelled",
        !.active = FALSE,
        !.completed_at = Some(now),
        !.updated_at = now,
        !.phase_history =
            Append(@, [ phase |-> "cancelled",
                        entered_at |-> now,
                        reason |-> "cancel-requested" ]) ]

\* Variant: cancelling a cancelled document changes nothing.
requestTeamCancel_Idempotent(s, preserveForResume, now) ==
    IF s.phase = "cancelled"
    THEN s
    ELSE [ s EXCEPT
             !.cancel = [ @ EXCEPT !.requested = TRUE,
                                   !.requested_at = Some(now),
                                   !.preserve_for_resume =
                                       PreserveArgument(preserveForResume) ],
             !.phase = "cancelled",
             !.active = FALSE,
             !.completed_at = Some(now),
             !.updated_at = now,
             !.phase_history =
                 Append(@, [ phase |-> "cancelled",
                             entered_at |-> now,
                             reason |-> "cancel-requested" ]) ]

\* Variant: the cancel is recorded in the cancel block and the phase, but no
\* entry is appended to the history.
requestTeamCancel_NoEntry(s, preserveForResume, now) ==
    [ s EXCEPT
        !.cancel = [ @ EXCEPT !.requested = TRUE,
                              !.requested_at = Some(now),
                              !.preserve_for_resume =
                                  PreserveArgument(preserveForResume) ],
        !.phase = "cancelled",
        !.active = FALSE,
        !.completed_at = Some(now),
        !.updated_at = now ]

requestTeamCancel(s, preserveForResume, now) ==
    [ s EXCEPT
        !.cancel = [ @ EXCEPT !.requested = TRUE,
                              !.requested_at = Some(now),
                              !.preserve_for_resume =
                                  PreserveArgument(preserveForResume) ],
        !.phase = "cancelled",
        !.active = FALSE,
        !.completed_at = Some(now),
        !.updated_at = now,
        !.phase_history =
            Append(@, [ phase |-> "cancelled",
                        entered_at |-> now,
                        reason |-> "cancel-requested" ]) ]

----------------------------------------------------------------------------
(* state.ts: readTeamPipelineState, writeTeamPipelineState,                *)
(* clearTeamPipelineState, over the state repository of mode-state-io      *)

Directories == {"/repo"}

SessionIds == {"session-1", "session-2"}

\* Values of the optional `sessionId` argument: left out, empty, or an id.
SessionArguments == {NULL, Some("")} \cup { Some(id) : id \in SessionIds }

\* One document per (workflow kind, working directory, session id).
StoreKeys == {"team"} \X Directories \X SessionIds

EmptyStore == [key \in StoreKeys |-> NULL]

\* The two components that change the document of one session: the driver
\* asks the transition engine for phases, the operator requests cancels.
Mutators == {"driver", "operator"}

\* A mutator that holds nothing: it has not read, or has written back.
Resting == [base |-> NULL, doc |-> NULL, computed |-> FALSE]

Idle == [m \in Mutators |-> Resting]

\* The repository adapter: an opaque key-value store.  A write or a clear
\* reports whether it worked; one that did not work leaves the store alone.
readModeState(mode, directory, sessionId, stored) ==
    stored[<<mode, directory, sessionId>>]

writeModeState(mode, document, directory, sessionId, stored, works) ==
    [ result |-> works,
      store  |-> IF works
                 THEN [stored EXCEPT ![<<mode, directory, sessionId>>] =
                                         Some(document)]
                 ELSE stored ]

clearModeStateFile(mode, directory, sessionId, stored, works) ==
    [ result |-> works,
      store  |-> IF works
                 THEN [stored EXCEPT ![<<mode, directory, sessionId>>] = NULL]
                 ELSE stored ]

\* if (!sessionId) return null; otherwise what the repository holds, or null
readTeamPipelineState(directory, sessionId, stored) ==
    IF ~ Truthy(sessionId)
    THEN NULL
    ELSE readModeState("team", directory, sessionId[1], stored)

\* { ...state, session_id: sessionId, mode: 'team',
\*   schema_version: TEAM_PIPELINE_SCHEMA_VERSION, updated_at: nowIso() }
Stamped(s, sessionId, now) ==
    [ s EXCEPT !.session_id = sessionId,
               !.mode = "team",
               !.schema_version = TEAM_PIPELINE_SCHEMA_VERSION,
               !.updated_at = now ]

\* Variant: the caller's session_id is written as it is.
writeTeamPipelineState_KeepsSessionId(directory, s, sessionId, stored, now, works) ==
    IF ~ Truthy(sessionId)
    THEN [result |-> FALSE, store |-> stored]
    ELSE writeModeState("team",
                        [ s EXCEPT !.mode = "team",
                                   !.schema_version =
                                       TEAM_PIPELINE_SCHEMA_VERSION,
                                   !.updated_at = now ],
                        directory, sessionId[1], stored, works)

writeTeamPipelineState(directory, s, sessionId, stored, now, works) ==
    IF ~ Truthy(sessionId)
    THEN [result |-> FALSE, store |-> stored]
    ELSE writeModeState("team", Stamped(s, sessionId[1], now),
                        directory, sessionId[1], stored, works)

clearTeamPipelineState(directory, sessionId, stored, works) ==
    IF ~ Truthy(sessionId)
    THEN [result |-> FALSE, store |-> stored]
    ELSE clearModeStateFile("team", directory, sessionId[1], stored, works)

----------------------------------------------------------------------------
(* The run: one driver holding the document, the executor and the operator *)

HasReason(e, r) == "reason" \in DOMAIN e /\ e.reason = r

\* The number of cancel requests the document has been through.
CancelCount(s) ==
    Cardinality({ i \in 1..Len(s.phase_history) :
                    HasReason(s.phase_history[i], "cancel-requested") })

\* The record of a call: the operation, the requested phase, the
\* preserveForResume argument (requestTeamCancel only), the document handed
\* in, and the ok and reason of the result.
Called(op, next, preserve, input, ok, reason) ==
    [ op |-> op, next |-> next, preserve |-> preserve, input |-> input,
      ok |-> ok, reason |-> reason ]

Init ==
    /\ state = initTeamPipelineState("/repo", "session-1", NoOptions, 0)
    /\ call = Called("init", "team-plan", NULL, state, TRUE, NULL)
    /\ clock = 1
    /\ store = EmptyStore
    /\ mutator = Idle

\* The driver asks the transition engine for a phase and keeps the document
\* that comes back, whether or not the request was accepted.
Transition(reasons, maxHistory) ==
    \E next \in Phases, reason \in reasons :
        LET r == transitionTeamPhase(state, next, reason, clock) IN
        /\ Len(r.state.phase_history) <= maxHistory
        /\ state' = r.state
        /\ call' = Called("transition", next, NULL, state, r.ok, r.reason)
        /\ clock' = IF r.state = state THEN clock ELSE clock + 1
        /\ UNCHANGED <<store, mutator>>

\* A privileged caller marks a phase directly, bypassing the engine.
Mark(reasons, maxHistory) ==
    \E next \in Phases, reason \in reasons :
        LET r == markTeamPhase(state, next, reason, clock) IN
        /\ Len(r.state.phase_history) <= maxHistory
        /\ state' = r.state
        /\ call' = Called("mark", next, NULL, state, r.ok, r.reason)
        /\ clock' = IF r.state = state THEN clock ELSE clock + 1
        /\ UNCHANGED <<store, mutator>>

\* The operator requests cancellation; preserveForResume defaults to true.
Cancel(maxCancels, maxHistory) ==
    \E preserveForResume \in {NULL, Some(TRUE), Some(FALSE)} :
        LET s == requestTeamCancel(state, preserveForResume, clock) IN
        /\ Len(s.phase_history) <= maxHistory
        /\ CancelCount(s) <= maxCancels
        /\ state' = s
        /\ call' = Called("cancel", "cancelled", preserveForResume, state,
                           TRUE, NULL)
        /\ clock' = clock + 1
        /\ UNCHANGED <<store, mutator>>

External(s) == Called("external", s.phase, NULL, s, TRUE, NULL)

\* The planning stages store the plan and PRD paths.
UpdateArtifacts(plans, prds) ==
    \E plan \in plans, prd \in prds :
        /\ state' = [state EXCEPT !.artifacts.plan_path = plan,
                                  !.artifacts.prd_path = prd]
        /\ state' # state
        /\ call' = External(state')
        /\ UNCHANGED <<clock, store, mutator>>

\* The executor reports its progress counters.
UpdateExecution(totals, completeds) ==
    \E total \in totals, completed \in completeds :
        /\ state' = [state EXCEPT !.execution.tasks_total = total,
                                  !.execution.tasks_completed = completed]
        /\ state' # state
        /\ call' = External(state')
        /\ UNCHANGED <<clock, store, mutator>>

\* The verifier records why verification failed.
RecordFailure ==
    \E why \in FailureReasons :
        /\ state.phase = "team-verify"
        /\ state' = [state EXCEPT !.fix_loop.last_failure_reason = why]
        /\ state' # state
        /\ call' = External(state')
        /\ UNCHANGED <<clock, store, mutator>>

\* Any interleaving of driver requests, operator cancels and executor updates.
Next ==
    \/ Transition({NULL}, MaxHistory)
    \/ Cancel(MaxCancels, MaxHistory)
    \/ UpdateArtifacts(PlanPaths, PrdPaths)
    \/ UpdateExecution(TaskCounts, TaskCounts)

Spec == Init /\ [][Next]_vars

\* The repair loop run to exhaustion: the plan is delivered and the tasks are
\* reported done, the verifier records failures, and the driver and the
\* operator act freely.
NextRetry ==
    \/ Transition({NULL}, MaxRetryHistory)
    \/ Cancel(MaxRetryCancels, MaxRetryHistory)
    \/ UpdateArtifacts({Some("plan.md")}, {NULL})
    \/ UpdateExecution({1}, {1})
    \/ RecordFailure

SpecRetry == Init /\ [][NextRetry]_vars

\* markTeamPhase called directly.  The document handed in is one the program
\* produces: the initial document after `fixes` repair attempts and an entry
\* into `phase`, each made by markTeamPhase itself.
RECURSIVE MarkAll(_, _, _)
MarkAll(s, phases, now) ==
    IF phases = <<>>
    THEN s
    ELSE MarkAll(markTeamPhase(s, Head(phases), NULL, now).state,
                 Tail(phases), now + 1)

Marked(fixes, phase) ==
    MarkAll(initTeamPipelineState("/repo", "session-1", NoOptions, 0),
            [i \in 1..fixes |-> "team-fix"] \o <<phase>>, 1)

\* The clock reading when the direct calls start.
MarkStart == MaxMarkedFixes + 2

InitMark ==
    /\ \E fixes \in 0..MaxMarkedFixes, phase \in Phases :
           state = Marked(fixes, phase)
    /\ call = Called("init", state.phase, NULL, state, TRUE, NULL)
    /\ clock = MarkStart
    /\ store = EmptyStore
    /\ mutator = Idle

MarkHistoryBound == MaxMarkedFixes + 2 * MaxMarkSteps + 3

\* At most MaxMarkSteps calls change the document.
StepsLeft == clock < MarkStart + MaxMarkSteps

DirectMark == StepsLeft /\ Mark(Reasons, MarkHistoryBound)

DirectTransition == StepsLeft /\ Transition({NULL}, MarkHistoryBound)

DirectCancel == StepsLeft /\ Cancel(MaxMarkSteps, MarkHistoryBound)

NextMark ==
    \/ DirectMark
    \/ DirectTransition
    \/ DirectCancel

SpecMark == InitMark /\ [][NextMark]_vars

\* The driver and the state repository.  The driver creates a document,
\* moves it through the engine, and writes it to, reads it from and clears it
\* in the repository, under whatever session id it passes.  The repository
\* may already hold a document somebody else left under a key.
InitOptions ==
    { NoOptions,
      [project_path |-> Some("/work"), max_iterations |-> NULL],
      [project_path |-> NULL, max_iterations |-> Some(2)] }

ForeignDocument(sessionId) ==
    [ initTeamPipelineState("/elsewhere", sessionId, NoOptions, 0) EXCEPT
        !.schema_version = TEAM_PIPELINE_SCHEMA_VERSION - 1,
        !.mode = "other" ]

\* The record of a repository call: the session id passed, the document
\* handed in, the repository before the call, and the result (the document
\* read, for a read).
StoreCalled(op, sessionId, input, before, ok, result) ==
    [ op |-> op, next |-> input.phase, preserve |-> NULL, input |-> input,
      ok |-> ok, reason |-> NULL,
      sessionId |-> sessionId, before |-> before, result |-> result ]

InitStore ==
    /\ state = initTeamPipelineState("/repo", "session-1", NoOptions, 0)
    /\ call = Called("init", "team-plan", NULL, state, TRUE, NULL)
    /\ clock = 1
    /\ store \in [StoreKeys -> {NULL, Some(ForeignDocument("session-0"))}]
    /\ mutator = Idle

ClockLeft == clock < MaxStoreClock

Create ==
    \E directory \in Directories, sessionId \in SessionIds,
       options \in InitOptions :
        /\ ClockLeft
        /\ state' = initTeamPipelineState(directory, sessionId, options, clock)
        /\ call' = Called("init", "team-plan", NULL, state', TRUE, NULL)
        /\ clock' = clock + 1
        /\ UNCHANGED <<store, mutator>>

Write ==
    \E directory \in Directories, sessionId \in SessionArguments,
       works \in BOOLEAN :
        LET w == writeTeamPipelineState(directory, state, sessionId, store,
                                        clock, works) IN
        /\ ClockLeft
        /\ store' = w.store
        /\ call' = StoreCalled("write", sessionId, state, store, w.result, NULL)
        /\ clock' = IF Truthy(sessionId) THEN clock + 1 ELSE clock
        /\ UNCHANGED <<state, mutator>>

\* The driver continues from the document it read, if there was one.
Read ==
    \E directory \in Directories, sessionId \in SessionArguments :
        LET r == readTeamPipelineState(directory, sessionId, store) IN
        /\ state' = IF r = NULL THEN state ELSE r[1]
        /\ call' = StoreCalled("read", sessionId, state, store, r # NULL, r)
        /\ UNCHANGED <<clock, store, mutator>>

Clear ==
    \E directory \in Directories, sessionId \in SessionArguments,
       works \in BOOLEAN :
        LET c == clearTeamPipelineState(directory, sessionId, store, works) IN
        /\ store' = c.store
        /\ call' = StoreCalled("clear", sessionId, state, store, c.result, NULL)
        /\ UNCHANGED <<state, clock, mutator>>

StoredTransition == ClockLeft /\ Transition({NULL}, MaxStoreHistory)

StoredCancel == ClockLeft /\ Cancel(1, MaxStoreHistory)

NextStore ==
    \/ Create
    \/ Write
    \/ Read
    \/ Clear
    \/ StoredTransition
    \/ StoredCancel

SpecStore == InitStore /\ [][NextStore]_vars

\* The pipeline left to run, with no cancel request: the driver issues
\* requests, the planning stage and the executor update the document.
LiveTransition == Transition({NULL}, MaxLiveHistory)

\* A request that moves the document to another phase.
Advance == LiveTransition /\ state'.phase # state.phase

DeliverPlan == UpdateArtifacts({Some("plan.md")}, {NULL})

FinishTasks == UpdateExecution({1}, {1})

NextLive ==
    \/ LiveTransition
    \/ UpdateArtifacts({NULL, Some("plan.md")}, {NULL})
    \/ UpdateExecution(TaskCounts, TaskCounts)

\* The planning stage eventually delivers the plan and the executor
\* eventually reports the tasks done, however often the values are taken
\* back; the driver, whenever a request that moves the document is possible
\* again and again, eventually issues one.
Fairness ==
    /\ WF_vars(DeliverPlan)
    /\ WF_vars(FinishTasks)
    /\ SF_vars(Advance)

SpecLive == Init /\ [][NextLive]_vars /\ Fairness

----------------------------------------------------------------------------
(* Two mutators on one session: SpecRace *)

\* The driver and the operator each read the stored document of the session
\* (readTeamPipelineState), compute on their own copy (transitionTeamPhase,
\* requestTeamCancel) and write the result back (writeTeamPipelineState).
\* Nothing orders the steps of one against the steps of the other: neither
\* function takes a lock or compares a version.

RaceDirectory == "/repo"

RaceSession == "session-1"

RaceKey == <<"team", RaceDirectory, RaceSession>>

\* The record of a step of a mutator: who, the document it read at its last
\* read, and the repository before the step.
RaceCalled(op, by, next, preserve, input, ok, reason, before) ==
    [ op |-> op, next |-> next, preserve |-> preserve, input |-> input,
      ok |-> ok, reason |-> reason,
      by |-> by, base |-> mutator[by].base, before |-> before ]

\* The session's document when the two mutators start: as created, or with
\* the artifacts of planning and execution already recorded in it.
Delivered(s) ==
    [ s EXCEPT !.artifacts = [ @ EXCEPT !.plan_path = Some("plan.md"),
                                        !.prd_path = Some("prd.md") ],
               !.execution = [ @ EXCEPT !.tasks_total = 1,
                                        !.tasks_completed = 1 ] ]

RaceDocuments ==
    LET created == initTeamPipelineState(RaceDirectory, RaceSession,
                                         NoOptions, 0) IN
    {created, Delivered(created)}

InitRace ==
    /\ state \in RaceDocuments
    /\ call = Called("init", "team-plan", NULL, state, TRUE, NULL)
    /\ clock = 2
    /\ store = writeTeamPipelineState(RaceDirectory, state, Some(RaceSession),
                                      EmptyStore, 1, TRUE).store
    /\ mutator = Idle

RaceClockLeft == clock < MaxRaceClock

RaceRead(m) ==
    LET r == readTeamPipelineState(RaceDirectory, Some(RaceSession), store) IN
    /\ mutator[m] = Resting
    /\ r # NULL
    /\ mutator' = [mutator EXCEPT ![m] =
                       [base |-> r, doc |-> r, computed |-> FALSE]]
    /\ state' = r[1]
    /\ call' = RaceCalled("read", m, r[1].phase, NULL, r[1], TRUE, NULL, store)
    /\ UNCHANGED <<clock, store>>

DriverCompute ==
    \E next \in Phases :
        LET held == mutator["driver"]
            r == transitionTeamPhase(held.doc[1], next, NULL, clock) IN
        /\ RaceClockLeft
        /\ held.doc # NULL
        /\ ~ held.computed
        /\ mutator' = [mutator EXCEPT !["driver"] =
                           [held EXCEPT !.doc = Some(r.state),
                                        !.computed = TRUE]]
        /\ state' = r.state
        /\ call' = RaceCalled("transition", "driver", next, NULL, held.doc[1],
                              r.ok, r.reason, store)
        /\ clock' = clock + 1
        /\ UNCHANGED store

OperatorCompute ==
    \E preserve \in {NULL, Some(FALSE)} :
        LET held == mutator["operator"]
            s == requestTeamCancel(held.doc[1], preserve, clock) IN
        /\ RaceClockLeft
        /\ held.doc # NULL
        /\ ~ held.computed
        /\ mutator' = [mutator EXCEPT !["operator"] =
                           [held EXCEPT !.doc = Some(s), !.computed = TRUE]]
        /\ state' = s
        /\ call' = RaceCalled("cancel", "operator", "cancelled", preserve,
                              held.doc[1], TRUE, NULL, store)
        /\ clock' = clock + 1
        /\ UNCHANGED store

\* A mutator persists whatever document its computation returned, and then
\* holds nothing until it reads again.
RaceWrite(m) ==
    LET held == mutator[m]
        w == writeTeamPipelineState(RaceDirectory, held.doc[1],
                                    Some(RaceSession), store, clock, TRUE) IN
    /\ RaceClockLeft
    /\ held.computed
    /\ store' = w.store
    /\ mutator' = [mutator EXCEPT ![m] = Resting]
    /\ state' = held.doc[1]
    /\ call' = RaceCalled("write", m, held.doc[1].phase, NULL, held.doc[1],
                          w.result, NULL, store)
    /\ clock' = clock + 1

DriverRead == RaceRead("driver")

OperatorRead == RaceRead("operator")

DriverWrite == RaceWrite("driver")

OperatorWrite == RaceWrite("operator")

NextRace ==
    \/ DriverRead
    \/ DriverCompute
    \/ DriverWrite
    \/ OperatorRead
    \/ OperatorCompute
    \/ OperatorWrite

SpecRace == InitRace /\ [][NextRace]_vars

----------------------------------------------------------------------------
(* Reading the last call *)

In == call.input

\* The clock reading the last call saw: a call that changed the document
\* read the clock once and advanced it.
Now == IF state = In THEN clock ELSE clock - 1

Engine == call.op = "transition"

Direct == call.op = "mark"

Grown(n) == Len(state.phase_history) = Len(In.phase_history) + n

Last(h) == h[Len(h)]

FixEntries(s) ==
    Cardinality({ i \in 1..Len(s.phase_history) :
                    s.phase_history[i].phase = "team-fix" })

\* The adjacency table as the specification prints it.
TableEdges ==
    { <<"team-plan", "team-prd">>, <<"team-prd", "team-exec">>,
      <<"team-exec", "team-verify">>,
      <<"team-verify", "team-fix">>, <<"team-verify", "complete">>,
      <<"team-verify", "failed">>,
      <<"team-fix", "team-exec">>, <<"team-fix", "team-verify">>,
      <<"team-fix", "complete">>, <<"team-fix", "failed">>,
      <<"cancelled", "team-plan">>, <<"cancelled", "team-exec">> }

InTable(from, to) == <<from, to>> \in TableEdges

IllegalText(from, to) == Some("Illegal transition: " \o from \o " -> " \o to)

GuardText(from, to) ==
    Some("Guard failed for transition: " \o from \o " -> " \o to)

ResumeText ==
    Some("Cannot resume from cancelled: preserve_for_resume is not set")

BudgetText == Some("Fix loop exceeded max_attempts")

ExceededEntry(now) ==
    [ phase |-> "failed", entered_at |-> now,
      reason |-> "fix-loop-max-attempts-exceeded" ]

----------------------------------------------------------------------------
(* C1 *)

\* C1: a request to transitionTeamPhase is rejected with ok:false and reason
\* "Illegal transition: <from> -> <to>" exactly when <to> is not listed in the
\* table row of <from>, and every phase change the engine accepts follows an
\* edge of the table.
C1_IllegalExactlyOffTable ==
    Engine =>
        /\ (~ call.ok /\ call.reason = IllegalText(In.phase, call.next))
               <=> ~ InTable(In.phase, call.next)
        /\ (call.ok /\ state.phase # In.phase)
               => InTable(In.phase, state.phase)

\* The illegal skip team-plan -> team-exec has been rejected.
C1_Witness ==
    /\ Engine
    /\ ~ call.ok
    /\ In.phase = "team-plan"
    /\ call.next = "team-exec"
    /\ call.reason = Some("Illegal transition: team-plan -> team-exec")

----------------------------------------------------------------------------
(* C2 *)

\* C2: a request the engine rejects for illegality, for an unmet readiness
\* guard, or for a resume without preserve_for_resume returns the input
\* document unchanged in every field.
C2_RejectedUnchanged ==
    (/\ Engine
     /\ ~ call.ok
     /\ call.reason \in { IllegalText(In.phase, call.next),
                          GuardText(In.phase, call.next),
                          ResumeText })
        => state = In

\* A resume has been refused for want of preserve_for_resume.
C2_Witness ==
    /\ Engine
    /\ ~ call.ok
    /\ call.reason = ResumeText
    /\ In.phase = "cancelled"
    /\ ~ In.cancel.preserve_for_resume

----------------------------------------------------------------------------
(* C3 *)

NonNull(path) == path # NULL

NonEmpty(path) == path # NULL /\ path # Some("")

TasksDone(s) ==
    /\ s.execution.tasks_total > 0
    /\ s.execution.tasks_completed >= s.execution.tasks_total

\* The request went to markTeamPhase and its result came back verbatim.
HandedToMark ==
    \E reason \in Reasons :
        LET m == markTeamPhase(In, call.next, reason, Now) IN
        /\ call.ok = m.ok
        /\ call.reason = m.reason
        /\ state = m.state

GuardRejected ==
    /\ ~ call.ok
    /\ call.reason = GuardText(In.phase, call.next)
    /\ state = In

LegalLiveRequest ==
    /\ Engine
    /\ InTable(In.phase, call.next)
    /\ In.phase # "cancelled"

\* C3 as written: for a legal request from a non-cancelled phase the guard of
\* team-exec is "plan_path or prd_path is non-null", the guard of team-verify
\* is "tasks_total > 0 and tasks_completed >= tasks_total", no other target
\* has a guard; an unmet guard gives "Guard failed ...", a met guard hands the
\* request to markTeamPhase.
C3_Original ==
    LegalLiveRequest =>
        LET met ==
              CASE call.next = "team-exec" ->
                       \/ NonNull(In.artifacts.plan_path)
                       \/ NonNull(In.artifacts.prd_path)
                [] call.next = "team-verify" -> TasksDone(In)
                [] OTHER -> TRUE
        IN  IF met THEN HandedToMark ELSE GuardRejected

\* C3 (amended): as C3, with the guard of team-exec being "plan_path or
\* prd_path is a non-empty string": a path that is null or the empty string
\* counts as missing.
C3_GuardsDecideEntry ==
    LegalLiveRequest =>
        LET met ==
              CASE call.next = "team-exec" ->
                       \/ NonEmpty(In.artifacts.plan_path)
                       \/ NonEmpty(In.artifacts.prd_path)
                [] call.next = "team-verify" -> TasksDone(In)
                [] OTHER -> TRUE
        IN  IF met THEN HandedToMark ELSE GuardRejected

\* Entry into team-verify has been refused with no task reported.
C3_Witness ==
    /\ LegalLiveRequest
    /\ In.phase = "team-exec"
    /\ call.next = "team-verify"
    /\ In.execution.tasks_total = 0
    /\ GuardRejected

----------------------------------------------------------------------------
(* C4 *)

\* C4: an entry into team-fix from a document with fix_loop.attempt = a and
\* max_attempts = m is accepted (ok:true, attempt a+1, one history entry) iff
\* a+1 <= m; otherwise it returns ok:false "Fix loop exceeded max_attempts"
\* and a failed, inactive, completed document with attempt a+1, the previous
\* last_failure_reason if non-null and "fix-loop-max-attempts-exceeded"
\* otherwise, and two appended entries: team-fix, then failed with reason
\* "fix-loop-max-attempts-exceeded".  With m = 3 the 4th entry is the first
\* to fail.
C4_BoundedRetry ==
    (Engine /\ call.next = "team-fix" /\ InTable(In.phase, "team-fix")) =>
        LET a == In.fix_loop.attempt
            m == In.fix_loop.max_attempts
            h == state.phase_history
            n == Len(In.phase_history)
        IN  /\ m = 3
            /\ state.fix_loop.attempt = a + 1
            /\ call.ok <=> a + 1 <= m
            /\ call.ok <=> FixEntries(state) < 4
            /\ call.ok =>
                   /\ state.phase = "team-fix"
                   /\ call.reason = NULL
                   /\ h = Append(In.phase_history,
                                 [phase |-> "team-fix", entered_at |-> Now])
                   /\ state.fix_loop.last_failure_reason
                          = In.fix_loop.last_failure_reason
            /\ ~ call.ok =>
                   /\ call.reason = BudgetText
                   /\ state.phase = "failed"
                   /\ ~ state.active
                   /\ state.completed_at # NULL
                   /\ state.fix_loop.last_failure_reason =
                          IF In.fix_loop.last_failure_reason # NULL
                          THEN In.fix_loop.last_failure_reason
                          ELSE Some("fix-loop-max-attempts-exceeded")
                   /\ h = In.phase_history \o
                          << [phase |-> "team-fix", entered_at |-> Now],
                             ExceededEntry(Now) >>
                   /\ Len(h) = n + 2

\* The 4th entry into team-fix has failed, keeping the failure reason the
\* verifier had recorded.
C4_Witness ==
    /\ Engine
    /\ call.next = "team-fix"
    /\ In.phase = "team-verify"
    /\ In.fix_loop.attempt = 3
    /\ ~ call.ok
    /\ state.phase = "failed"
    /\ state.fix_loop.last_failure_reason = Some("verify-failed")

----------------------------------------------------------------------------
(* C5 *)

\* C5: requestTeamCancel never fails: from any of the 8 phases it returns a
\* document with phase cancelled, active false, completed_at set,
\* cancel.requested true, cancel.requested_at set, cancel.preserve_for_resume
\* equal to the argument (true when omitted), and the input history plus one
\* entry {phase: cancelled, reason: "cancel-requested"}; nothing else changes
\* but updated_at.
C5_CancelOverrides ==
    call.op = "cancel" =>
        /\ call.ok
        /\ state.phase = "cancelled"
        /\ ~ state.active
        /\ state.completed_at # NULL
        /\ state.cancel.requested
        /\ state.cancel.requested_at # NULL
        /\ state.cancel.preserve_for_resume =
               (call.preserve \in {NULL, Some(TRUE)})
        /\ state.phase_history =
               Append(In.phase_history,
                      [ phase |-> "cancelled", entered_at |-> Now,
                        reason |-> "cancel-requested" ])

\* An already cancelled document has been cancelled again, this time with
\* the argument omitted.
C5_Witness ==
    /\ call.op = "cancel"
    /\ In.phase = "cancelled"
    /\ call.preserve = NULL
    /\ ~ In.cancel.preserve_for_resume
    /\ state.cancel.preserve_for_resume

\* A complete or failed document has been cancelled.
C5_FromTerminal ==
    /\ call.op = "cancel"
    /\ In.phase \in {"complete", "failed"}

----------------------------------------------------------------------------
(* C6 *)

ResumeRequest ==
    /\ Engine
    /\ In.phase = "cancelled"
    /\ call.next \in {"team-plan", "team-exec"}

ResumeAccepted ==
    /\ call.ok
    /\ state.phase = call.next
    /\ state.active
    /\ state.completed_at = NULL
    /\ Grown(1)
    /\ Last(state.phase_history).phase = call.next

ResumeRefusedUnchanged ==
    /\ ~ call.ok
    /\ call.reason = ResumeText
    /\ state = In

\* C6 as written: from every cancelled document, a request for team-plan or
\* team-exec succeeds (ok:true, the requested phase, active, completed_at
\* null, one appended entry) when cancel.preserve_for_resume is true, and
\* fails with "Cannot resume from cancelled: ..." and the document unchanged
\* when it is false.
C6_Original ==
    ResumeRequest =>
        IF In.cancel.preserve_for_resume
        THEN ResumeAccepted
        ELSE ResumeRefusedUnchanged

\* C6 (amended): as C6, provided the retry budget is not exhausted
\* (fix_loop.attempt <= fix_loop.max_attempts).  With preserve_for_resume
\* true and the budget exhausted the resume returns ok:false "Fix loop
\* exceeded max_attempts" and a failed, inactive, completed document with two
\* appended entries.
C6_Resume ==
    ResumeRequest =>
        IF ~ In.cancel.preserve_for_resume
        THEN ResumeRefusedUnchanged
        ELSE IF In.fix_loop.attempt <= In.fix_loop.max_attempts
        THEN ResumeAccepted
        ELSE /\ ~ call.ok
             /\ call.reason = BudgetText
             /\ state.phase = "failed"
             /\ ~ state.active
             /\ state.completed_at # NULL
             /\ Grown(2)
             /\ Last(state.phase_history) = ExceededEntry(Now)

\* A cancelled document has been resumed into team-exec.
C6_Witness ==
    /\ ResumeRequest
    /\ call.next = "team-exec"
    /\ In.cancel.preserve_for_resume
    /\ ~ In.active
    /\ ResumeAccepted

----------------------------------------------------------------------------
(* C7 *)

\* C7: from complete or failed the engine refuses every one of the 8 targets,
\* the current phase included, and returns the document unchanged.
C7_TerminalImmutable ==
    (Engine /\ In.phase \in {"complete", "failed"}) =>
        /\ ~ call.ok
        /\ state = In

\* A completed document has been asked for complete again and refused.
C7_Witness ==
    /\ Engine
    /\ In.phase = "complete"
    /\ call.next = "complete"
    /\ ~ call.ok
    /\ state = In

----------------------------------------------------------------------------
(* C8 *)

\* C8: markTeamPhase asked for the current phase, other than team-fix,
\* returns ok:true and the identical input document: no history entry, no
\* timestamp or flag touched, no retry-bound check; so a second application
\* changes nothing either.
C8_MarkNoOp ==
    (Direct /\ call.next = In.phase /\ call.next # "team-fix") =>
        /\ call.ok
        /\ call.reason = NULL
        /\ state = In
        /\ \A reason \in Reasons :
               markTeamPhase(state, call.next, reason, clock)
                   = [ok |-> TRUE, state |-> In, reason |-> NULL]

\* A failed document whose retry budget is exhausted has been marked failed
\* again: ok:true, although attempt exceeds max_attempts.
C8_Witness ==
    /\ Direct
    /\ call.next = "failed"
    /\ In.phase = "failed"
    /\ In.fix_loop.attempt > In.fix_loop.max_attempts
    /\ call.ok
    /\ state = In

----------------------------------------------------------------------------
(* C9 *)

SameRequest ==
    /\ Engine
    /\ call.next = In.phase
    /\ call.next # "team-fix"

\* C9 as written: asking the engine for the phase the document is already in
\* (other than team-fix) returns ok:true with the same document and no
\* history growth.
C9_Original ==
    SameRequest =>
        /\ call.ok
        /\ state = In
        /\ Grown(0)

\* C9 (amended): asking the engine for the phase the document is already in
\* (other than team-fix) leaves the document and its history unchanged, but
\* the request is rejected: ok:false, "Illegal transition: <p> -> <p>", since
\* no row of the table lists its own phase.
C9_SameRequestRejected ==
    SameRequest =>
        /\ ~ call.ok
        /\ call.reason = IllegalText(In.phase, In.phase)
        /\ state = In
        /\ Grown(0)

\* The engine has been asked for team-exec while in team-exec.
C9_Witness ==
    /\ SameRequest
    /\ In.phase = "team-exec"
    /\ ~ call.ok
    /\ state = In

----------------------------------------------------------------------------
(* C10 *)

\* C10: markTeamPhase(state, team-fix) on a document already in team-fix is
\* not a no-op: attempt grows by exactly 1, a team-fix entry is appended, and
\* the retry bound applies, exactly as for a first entry into team-fix (the
\* same call on the same document in team-verify).
C10_FixRetryCounts ==
    (Direct /\ call.next = "team-fix" /\ In.phase = "team-fix") =>
        /\ state # In
        /\ state.fix_loop.attempt = In.fix_loop.attempt + 1
        /\ Len(state.phase_history) > Len(In.phase_history)
        /\ state.phase_history[Len(In.phase_history) + 1].phase = "team-fix"
        /\ call.ok <=>
               In.fix_loop.attempt + 1 <= In.fix_loop.max_attempts
        /\ call.ok => state.phase = "team-fix" /\ Grown(1)
        /\ ~ call.ok => state.phase = "failed" /\ Grown(2)
        /\ \E reason \in Reasons :
               LET first == markTeamPhase([In EXCEPT !.phase = "team-verify"],
                                          "team-fix", reason, Now)
               IN  /\ call.ok = first.ok
                   /\ call.reason = first.reason
                   /\ state = first.state

\* A repeat repair attempt has exhausted the budget.
C10_Witness ==
    /\ Direct
    /\ call.next = "team-fix"
    /\ In.phase = "team-fix"
    /\ In.fix_loop.attempt = 3
    /\ ~ call.ok
    /\ state.phase = "failed"

----------------------------------------------------------------------------
(* C11 *)

\* C11: in every document of a run of transitionTeamPhase and
\* requestTeamCancel calls from initTeamPipelineState, interleaved with the
\* executor's updates, active is false if and only if the phase is complete,
\* failed or cancelled.
C11_ActiveIffLive ==
    ~ state.active <=> state.phase \in {"complete", "failed", "cancelled"}

\* A resume re-activated the document and the retry bound deactivated it
\* again in the same call: the document came back failed and inactive.
C11_Witness ==
    /\ Engine
    /\ In.phase = "cancelled"
    /\ In.cancel.preserve_for_resume
    /\ ~ In.active
    /\ ~ call.ok
    /\ state.phase = "failed"
    /\ ~ state.active
    /\ state # In

----------------------------------------------------------------------------
(* C12 *)

\* C12: in every document of a run of transitionTeamPhase and
\* requestTeamCancel calls from initTeamPipelineState, completed_at is
\* non-null if and only if active is false.
C12_CompletedIffInactive ==
    state.completed_at # NULL <=> ~ state.active

\* A cancelled document, completed_at set, has been resumed: completed_at is
\* null again and the document is active.
C12_Witness ==
    /\ Engine
    /\ In.phase = "cancelled"
    /\ In.completed_at # NULL
    /\ call.ok
    /\ state.active
    /\ state.completed_at = NULL

----------------------------------------------------------------------------
(* C13 *)

IsPrefix(h, g) == Len(h) <= Len(g) /\ SubSeq(g, 1, Len(h)) = h

Operation == call.op \in {"transition", "mark", "cancel"}

BoundViolation == ~ call.ok /\ call.reason = BudgetText

Rejected == ~ call.ok /\ call.reason # BudgetText

IdempotentNoOp ==
    /\ call.ok
    /\ call.op \in {"transition", "mark"}
    /\ call.next = In.phase
    /\ call.next # "team-fix"

\* C13: phase_history is append-only.  For every call of transitionTeamPhase,
\* markTeamPhase or requestTeamCancel the input history is a prefix of the
\* returned history; it grows by exactly 0 for a rejected request or an
\* idempotent no-op, by exactly 1 for an accepted phase change and for a
\* cancel request, and by exactly 2 for a retry-bound violation: the
\* requested phase's entry followed by the synthesized failed entry.
C13_HistoryAppendOnly ==
    Operation =>
        LET n == Len(In.phase_history)
            h == state.phase_history
        IN  /\ IsPrefix(In.phase_history, h)
            /\ Grown(0) \/ Grown(1) \/ Grown(2)
            /\ Grown(0) <=> Rejected \/ IdempotentNoOp
            /\ Grown(1) <=>
                   \/ call.op = "cancel"
                   \/ call.ok /\ ~ IdempotentNoOp
            /\ Grown(2) <=> BoundViolation
            /\ Grown(1) => h[n + 1].phase = state.phase
            /\ BoundViolation =>
                   /\ h[n + 1].phase = call.next
                   /\ h[n + 2] = ExceededEntry(Now)

\* A failed document with the budget exhausted has been marked complete: the
\* bound was violated again and the history grew by two.
C13_Witness ==
    /\ Direct
    /\ In.phase = "failed"
    /\ call.next = "complete"
    /\ BoundViolation
    /\ Grown(2)
    /\ state.phase_history[Len(In.phase_history) + 1].phase = "complete"

----------------------------------------------------------------------------
(* C14 *)

\* The call appended an entry for team-fix to the history it was given.
EnteredFix ==
    /\ Len(state.phase_history) > Len(In.phase_history)
    /\ state.phase_history[Len(In.phase_history) + 1].phase = "team-fix"

\* C14: under transitionTeamPhase, markTeamPhase and requestTeamCancel,
\* cancel followed by resume included, fix_loop.attempt never decreases and
\* is never reset: it changes only in a call that enters team-fix, where it
\* grows by exactly 1, so it always equals the number of team-fix entries of
\* the history; fix_loop.max_attempts never changes.
C14_AttemptMonotone ==
    /\ state.fix_loop.attempt = FixEntries(state)
    /\ state.fix_loop.max_attempts = DefaultMaxAttempts
    /\ Operation =>
           /\ state.fix_loop.max_attempts = In.fix_loop.max_attempts
           /\ state.fix_loop.attempt >= In.fix_loop.attempt
           /\ state.fix_loop.attempt =
                  In.fix_loop.attempt + (IF EnteredFix THEN 1 ELSE 0)
           /\ EnteredFix => call.next = "team-fix"
           /\ (call.next = "team-fix" /\ state # In) => EnteredFix

\* A document that had been through repair attempts was cancelled and has
\* been resumed: the attempts are still counted.
C14_Witness ==
    /\ Engine
    /\ In.phase = "cancelled"
    /\ call.ok
    /\ state.active
    /\ In.fix_loop.attempt > 0
    /\ state.fix_loop.attempt = In.fix_loop.attempt

----------------------------------------------------------------------------
(* C15 *)

\* C15: every failure is a value.  Whenever transitionTeamPhase or
\* markTeamPhase returns ok:false the result carries a reason and a document
\* that is either the input document (illegal transition, guard failure,
\* resume not permitted) or a terminal one with phase failed, active false
\* and completed_at set (retry budget exhausted); whenever it returns ok:true
\* the returned phase is the requested target.
C15_FailuresAreValues ==
    (Engine \/ Direct) =>
        /\ ~ call.ok =>
               /\ call.reason # NULL
               /\ \/ /\ state = In
                     /\ Engine
                     /\ call.reason \in { IllegalText(In.phase, call.next),
                                          GuardText(In.phase, call.next),
                                          ResumeText }
                  \/ /\ call.reason = BudgetText
                     /\ state # In
                     /\ state.phase = "failed"
                     /\ ~ state.active
                     /\ state.completed_at # NULL
        /\ call.ok =>
               /\ call.reason = NULL
               /\ state.phase = call.next

\* markTeamPhase, called directly, has refused a repair attempt beyond the
\* budget: the failure came back as a result with a failed document.
C15_Witness ==
    /\ Direct
    /\ In.phase = "team-verify"
    /\ call.next = "team-fix"
    /\ ~ call.ok
    /\ call.reason = BudgetText
    /\ state.phase = "failed"
    /\ ~ state.active

----------------------------------------------------------------------------
(* C16 *)

HappyPath ==
    <<"team-plan", "team-prd", "team-exec", "team-verify", "complete">>

PhasesOf(h) == [i \in 1..Len(h) |-> h[i].phase]

\* The last call was the next request of the happy path, made on a document
\* that had followed the path so far, with the plan stored before team-exec
\* and the tasks reported done before team-verify.
HappyRequest ==
    LET k == Len(In.phase_history) IN
    /\ Engine
    /\ k < Len(HappyPath)
    /\ PhasesOf(In.phase_history) = SubSeq(HappyPath, 1, k)
    /\ call.next = HappyPath[k + 1]
    /\ call.next = "team-exec" => NonEmpty(In.artifacts.plan_path)
    /\ call.next = "team-verify" => TasksDone(In)

\* C16: from initTeamPipelineState the requests team-prd, team-exec (plan_path
\* set), team-verify (tasks_total > 0, tasks_completed >= tasks_total) and
\* complete are accepted one after the other by transitionTeamPhase: each
\* returns ok:true and appends exactly one history entry, and the final
\* document has phase complete, active false, completed_at set and
\* fix_loop.attempt 0.
C16_HappyPath ==
    HappyRequest =>
        /\ call.ok
        /\ call.reason = NULL
        /\ Grown(1)
        /\ state.phase = call.next
        /\ PhasesOf(state.phase_history)
               = SubSeq(HappyPath, 1, Len(In.phase_history) + 1)
        /\ state.fix_loop.attempt = 0
        /\ IF call.next = "complete"
           THEN ~ state.active /\ state.completed_at # NULL
           ELSE state.active /\ state.completed_at = NULL

\* The last request of the happy path has been accepted.
C16_Witness ==
    /\ HappyRequest
    /\ call.next = "complete"
    /\ call.ok
    /\ state.phase = "complete"
    /\ PhasesOf(state.phase_history) = HappyPath
    /\ ~ state.active
    /\ state.completed_at # NULL
    /\ state.fix_loop.attempt = 0

----------------------------------------------------------------------------
(* C17 *)

\* C17: initTeamPipelineState returns a document with phase team-plan, active
\* true, iteration 1, fix_loop.attempt 0, fix_loop.max_attempts 3, a
\* phase_history of length 1 whose entry has phase team-plan, completed_at
\* null, all artifact paths null, all execution counters 0 and cancel =
\* {requested: false, requested_at: null, preserve_for_resume: false}; the
\* document satisfies "active is false iff the phase is terminal" and
\* "completed_at is non-null iff active is false".
C17_Initialization ==
    call.op = "init" =>
        /\ state.phase = "team-plan"
        /\ state.active
        /\ state.iteration = 1
        /\ state.fix_loop.attempt = 0
        /\ state.fix_loop.max_attempts = 3
        /\ Len(state.phase_history) = 1
        /\ state.phase_history[1].phase = "team-plan"
        /\ state.completed_at = NULL
        /\ state.artifacts = [ plan_path |-> NULL, prd_path |-> NULL,
                               verify_report_path |-> NULL ]
        /\ \A counter \in DOMAIN state.execution :
               state.execution[counter] = 0
        /\ DOMAIN state.execution =
               { "workers_total", "workers_active", "tasks_total",
                 "tasks_completed", "tasks_failed" }
        /\ state.cancel = [ requested |-> FALSE, requested_at |-> NULL,
                            preserve_for_resume |-> FALSE ]
        /\ ~ state.active <=> state.phase \in {"complete", "failed", "cancelled"}
        /\ state.completed_at # NULL <=> ~ state.active

\* A second document has been created, at a later time, for another session
\* and with max_iterations given.
C17_Witness ==
    /\ call.op = "init"
    /\ state.session_id = "session-2"
    /\ state.max_iterations = 2
    /\ state.started_at > 0
    /\ state.phase = "team-plan"
    /\ state.active

----------------------------------------------------------------------------
(* C18 *)

StoreOperation == call.op \in {"read", "write", "clear"}

\* The fields writeTeamPipelineState sets itself.
StampedFields == {"session_id", "mode", "schema_version", "updated_at"}

\* C18: across readTeamPipelineState, writeTeamPipelineState and
\* clearTeamPipelineState the repository is changed only by calls that carry
\* a non-empty sessionId: with sessionId absent or empty, read returns null
\* and write and clear return false, and the repository is not touched.  A
\* document written under session key s carries session_id = s, mode = "team"
\* and the current schema_version whatever the caller's document said, and
\* phase, phase_history, fix_loop, cancel, artifacts and execution as given.
C18_StorageBoundary ==
    StoreOperation =>
        /\ ~ NonEmpty(call.sessionId) =>
               /\ store = call.before
               /\ ~ call.ok
               /\ call.result = NULL
               /\ state = In
        /\ \A key \in StoreKeys :
               store[key] # call.before[key] =>
                   /\ NonEmpty(call.sessionId)
                   /\ key[1] = "team"
                   /\ key[3] = call.sessionId[1]
                   /\ call.op \in {"write", "clear"}
                   /\ call.ok
        /\ (call.op = "write" /\ call.ok) =>
               \E key \in StoreKeys :
                   /\ key[3] = call.sessionId[1]
                   /\ store[key] # NULL
                   /\ LET written == store[key][1] IN
                      /\ written.session_id = call.sessionId[1]
                      /\ written.mode = "team"
                      /\ written.schema_version = TEAM_PIPELINE_SCHEMA_VERSION
                      /\ DOMAIN written = DOMAIN In
                      /\ \A field \in DOMAIN In \ StampedFields :
                             written[field] = In[field]

\* A document found in the repository, of another mode, schema version and
\* session, has been written under session-2 and was stamped.
C18_Witness ==
    /\ call.op = "write"
    /\ call.ok
    /\ call.sessionId = Some("session-2")
    /\ In.session_id # "session-2"
    /\ In.mode # "team"
    /\ In.schema_version # TEAM_PIPELINE_SCHEMA_VERSION
    /\ store[<<"team", "/repo", "session-2">>] # NULL
    /\ store[<<"team", "/repo", "session-2">>][1].session_id = "session-2"
    /\ store[<<"team", "/repo", "session-2">>][1].mode = "team"

----------------------------------------------------------------------------
(* C19 *)

\* A resumable cancelled document with neither a plan nor a PRD has been
\* asked to resume into team-exec.
ResumeExecWithoutArtifacts ==
    /\ Engine
    /\ In.phase = "cancelled"
    /\ In.cancel.preserve_for_resume
    /\ call.next = "team-exec"
    /\ In.artifacts.plan_path = NULL
    /\ In.artifacts.prd_path = NULL

InExecWithoutArtifacts ==
    /\ call.ok
    /\ state.phase = "team-exec"
    /\ state.active
    /\ state.artifacts.plan_path = NULL
    /\ state.artifacts.prd_path = NULL

\* C19 as written: the readiness guards are not evaluated on resume; from a
\* cancelled document with preserve_for_resume true a request for team-exec
\* is accepted even when plan_path and prd_path are both null, so the
\* document is in team-exec without a plan or a PRD.
C19_Original ==
    ResumeExecWithoutArtifacts => InExecWithoutArtifacts

\* C19 (amended): the readiness guards are not evaluated on resume; from a
\* cancelled document with preserve_for_resume true and the retry budget not
\* exhausted (fix_loop.attempt <= fix_loop.max_attempts) a request for
\* team-exec is accepted even when plan_path and prd_path are both null, so
\* the document is in team-exec without a plan or a PRD; with the budget
\* exhausted the request returns ok:false "Fix loop exceeded max_attempts"
\* and a failed document, never a guard failure.
C19_ResumeSkipsGuards ==
    ResumeExecWithoutArtifacts =>
        /\ call.reason # GuardText(In.phase, call.next)
        /\ IF In.fix_loop.attempt <= In.fix_loop.max_attempts
           THEN InExecWithoutArtifacts
           ELSE /\ ~ call.ok
                /\ call.reason = BudgetText
                /\ state.phase = "failed"
                /\ ~ state.active

\* init, cancel, resume to team-exec: the document is in team-exec with no
\* plan, no PRD, and team-prd never entered.
C19_Witness ==
    /\ ResumeExecWithoutArtifacts
    /\ InExecWithoutArtifacts
    /\ PhasesOf(state.phase_history) = <<"team-plan", "cancelled", "team-exec">>

----------------------------------------------------------------------------
(* C20 *)

Exhausted(s) == s.fix_loop.attempt > s.fix_loop.max_attempts

\* C20: retry-budget exhaustion is irrecoverable.  Once a call has produced a
\* document with fix_loop.attempt > fix_loop.max_attempts, every document
\* reached afterwards through transitionTeamPhase and requestTeamCancel is
\* exhausted too, has phase failed or cancelled and is inactive; cancelling
\* the failed document with preserveForResume = true and then requesting
\* team-plan or team-exec returns ok:false and a failed document.
C20_ExhaustionIrrecoverable ==
    /\ Exhausted(In) => Exhausted(state)
    /\ Exhausted(state) =>
           /\ state.phase \in {"failed", "cancelled"}
           /\ ~ state.active
    /\ (/\ Engine
        /\ Exhausted(In)
        /\ In.phase = "cancelled"
        /\ In.cancel.preserve_for_resume
        /\ call.next \in {"team-plan", "team-exec"})
           => /\ ~ call.ok
              /\ state.phase = "failed"
              /\ ~ state.active

\* The failed document of an exhausted repair loop was cancelled with
\* preserveForResume = true, and the request to resume into team-plan has
\* come back refused with a failed document.
C20_Witness ==
    /\ Engine
    /\ Exhausted(In)
    /\ In.phase = "cancelled"
    /\ In.cancel.preserve_for_resume
    /\ In.phase_history[Len(In.phase_history) - 1].phase = "failed"
    /\ call.next = "team-plan"
    /\ ~ call.ok
    /\ call.reason = BudgetText
    /\ state.phase = "failed"
    /\ Grown(2)

----------------------------------------------------------------------------
(* C21 *)

\* Entries into team-fix that were accepted: all of them, but the one the
\* retry bound turned into a failure.
AcceptedFixes(s) == FixEntries(s) - (IF Exhausted(s) THEN 1 ELSE 0)

\* The longest history of a run without cancel: team-plan, team-prd,
\* team-exec, team-verify; max_attempts times team-fix, team-exec,
\* team-verify; then team-fix and the synthesized failed entry.
LongestHistory == 4 + 3 * DefaultMaxAttempts + 2

RepairLoopBounded ==
    /\ AcceptedFixes(state) <= state.fix_loop.max_attempts
    /\ state.phase = "team-fix" =>
           state.fix_loop.attempt <= state.fix_loop.max_attempts
    /\ Len(state.phase_history) <= LongestHistory

Finished == state.phase \in {"complete", "failed"}

\* C21: in a run from initTeamPipelineState made of transitionTeamPhase
\* requests and executor updates, with no cancel request, team-fix is entered
\* successfully at most max_attempts times and only finitely many requests
\* change the phase (the history never exceeds 15 entries); if the executor
\* eventually satisfies the guards and the driver keeps issuing acceptable
\* requests, the run eventually reaches complete or failed and stays there.
C21_RepairLoopTerminates ==
    /\ [] RepairLoopBounded
    /\ <>[] Finished

\* The repair loop has been run to exhaustion along the longest path.
C21_Witness ==
    /\ state.phase = "failed"
    /\ Exhausted(state)
    /\ AcceptedFixes(state) = state.fix_loop.max_attempts
    /\ Len(state.phase_history) = LongestHistory

----------------------------------------------------------------------------
(* C22 *)

\* The document handed in was cancelled while complete or failed.
CancelledFromTerminal(s) ==
    /\ s.phase = "cancelled"
    /\ Len(s.phase_history) >= 2
    /\ s.phase_history[Len(s.phase_history) - 1].phase
           \in {"complete", "failed"}

\* C22: cancellation is not guarded against terminal phases.
\* requestTeamCancel on a complete or failed document succeeds and yields
\* cancelled; if preserveForResume was true and the fix budget is not
\* exhausted, a following request for team-plan or team-exec is accepted with
\* active true and completed_at null: a workflow that had reached complete or
\* failed is active again.
C22_TerminalReactivated ==
    /\ (call.op = "cancel" /\ In.phase \in {"complete", "failed"}) =>
           /\ call.ok
           /\ state.phase = "cancelled"
           /\ CancelledFromTerminal(state)
           /\ state.cancel.preserve_for_resume =
                  (call.preserve \in {NULL, Some(TRUE)})
    /\ (/\ Engine
        /\ CancelledFromTerminal(In)
        /\ In.cancel.preserve_for_resume
        /\ ~ Exhausted(In)
        /\ call.next \in {"team-plan", "team-exec"}) =>
           /\ call.ok
           /\ state.phase = call.next
           /\ state.active
           /\ state.completed_at = NULL

\* A completed workflow was cancelled and has been resumed into team-plan.
C22_Witness ==
    /\ Engine
    /\ CancelledFromTerminal(In)
    /\ In.phase_history[Len(In.phase_history) - 1].phase = "complete"
    /\ call.next = "team-plan"
    /\ call.ok
    /\ state.phase = "team-plan"
    /\ state.active
    /\ state.completed_at = NULL

----------------------------------------------------------------------------
(* C23 *)

\* The top-level fields no operation writes.
FrameFields ==
    { "iteration", "max_iterations", "artifacts", "execution", "session_id",
      "project_path", "mode", "schema_version", "started_at" }

\* C23: no call of transitionTeamPhase, markTeamPhase or requestTeamCancel
\* changes iteration, max_iterations, artifacts, the execution counters,
\* session_id, project_path, mode, schema_version, started_at or
\* fix_loop.max_attempts; transitionTeamPhase and markTeamPhase never change
\* the cancel record, so cancel.requested and cancel.preserve_for_resume stay
\* set after a successful resume; requestTeamCancel never changes fix_loop.
C23_Frame ==
    Operation =>
        /\ DOMAIN state = DOMAIN In
        /\ \A field \in FrameFields : state[field] = In[field]
        /\ state.fix_loop.max_attempts = In.fix_loop.max_attempts
        /\ (Engine \/ Direct) => state.cancel = In.cancel
        /\ call.op = "cancel" => state.fix_loop = In.fix_loop

\* A cancelled document has been resumed: it is active again and its cancel
\* record still says requested and preserve_for_resume.
C23_Witness ==
    /\ Engine
    /\ In.phase = "cancelled"
    /\ call.ok
    /\ state.active
    /\ state.cancel.requested
    /\ state.cancel.preserve_for_resume
    /\ state.cancel.requested_at # NULL

----------------------------------------------------------------------------
(* C24 *)

\* C24: through the engine a repeat repair attempt cannot be requested.
\* transitionTeamPhase on a document in team-fix, asked for team-fix, is
\* rejected with "Illegal transition: team-fix -> team-fix", the document and
\* fix_loop.attempt unchanged; so the engine increments the counter only on
\* an accepted or bound-violating team-verify -> team-fix request.
C24_NoRepeatThroughEngine ==
    Engine =>
        /\ (In.phase = "team-fix" /\ call.next = "team-fix") =>
               /\ ~ call.ok
               /\ call.reason = Some("Illegal transition: team-fix -> team-fix")
               /\ state = In
               /\ state.fix_loop.attempt = In.fix_loop.attempt
        /\ state.fix_loop.attempt # In.fix_loop.attempt =>
               /\ In.phase = "team-verify"
               /\ call.next = "team-fix"
               /\ state.fix_loop.attempt = In.fix_loop.attempt + 1
               /\ \/ call.ok /\ state.phase = "team-fix"
                  \/ BoundViolation /\ state.phase = "failed"

\* A document in team-fix after its third attempt has been asked for
\* team-fix through the engine and refused.
C24_Witness ==
    /\ Engine
    /\ In.phase = "team-fix"
    /\ In.fix_loop.attempt = 3
    /\ call.next = "team-fix"
    /\ ~ call.ok
    /\ state = In

----------------------------------------------------------------------------
(* C25 *)

\* C25: in every document reached from initTeamPipelineState through
\* transitionTeamPhase, markTeamPhase and requestTeamCancel, phase_history is
\* non-empty and the phase of its last entry is the current phase; after a
\* retry-bound violation the last entry is the synthesized failed entry and
\* the phase is failed.
C25_LastEntryIsPhase ==
    /\ Len(state.phase_history) >= 1
    /\ Last(state.phase_history).phase = state.phase
    /\ (Operation /\ BoundViolation) =>
           /\ Last(state.phase_history) = ExceededEntry(Now)
           /\ state.phase = "failed"

\* A direct mark of team-exec on a document whose budget was exhausted has
\* violated the bound: team-exec is in the history, failed is its last entry.
C25_Witness ==
    /\ Direct
    /\ call.next = "team-exec"
    /\ BoundViolation
    /\ state.phase = "failed"
    /\ Last(state.phase_history) = ExceededEntry(Now)
    /\ state.phase_history[Len(state.phase_history) - 1].phase = "team-exec"

----------------------------------------------------------------------------
(* C26 *)

\* C26: fix_loop.attempt equals the number of history entries whose phase is
\* team-fix, in every document reached from initTeamPipelineState through
\* transitionTeamPhase and requestTeamCancel and in every document
\* markTeamPhase makes of one; and in a run of transitionTeamPhase and
\* requestTeamCancel alone fix_loop.attempt never exceeds
\* fix_loop.max_attempts + 1.
C26_AttemptCountsFixEntries ==
    /\ state.fix_loop.attempt = FixEntries(state)
    /\ state.fix_loop.attempt <= state.fix_loop.max_attempts + 1
    /\ \A nextPhase \in Phases, reason \in Reasons :
           LET marked == markTeamPhase(state, nextPhase, reason, clock).state
           IN  marked.fix_loop.attempt = FixEntries(marked)

\* The exhausted document, four team-fix entries and attempt 4, has been
\* cancelled.
C26_Witness ==
    /\ call.op = "cancel"
    /\ state.fix_loop.attempt = state.fix_loop.max_attempts + 1
    /\ FixEntries(state) = 4
    /\ state.phase = "cancelled"

----------------------------------------------------------------------------
(* C27 *)

\* C27: transitionTeamPhase never accepts cancelled as a target: from every
\* phase the request is an illegal transition.  Only requestTeamCancel enters
\* cancelled, so in every document reached through transitionTeamPhase and
\* requestTeamCancel, phase = cancelled implies cancel.requested true,
\* cancel.requested_at non-null and a last history entry with reason
\* "cancel-requested".
C27_OnlyCancelEntersCancelled ==
    /\ (Engine /\ call.next = "cancelled") =>
           /\ ~ call.ok
           /\ call.reason = IllegalText(In.phase, "cancelled")
           /\ state = In
    /\ Engine => (state.phase = "cancelled" => state = In)
    /\ state.phase = "cancelled" =>
           /\ state.cancel.requested
           /\ state.cancel.requested_at # NULL
           /\ HasReason(Last(state.phase_history), "cancel-requested")
           /\ Last(state.phase_history).phase = "cancelled"

\* The engine has been asked to move a document in team-verify to cancelled
\* and has refused.
C27_Witness ==
    /\ Engine
    /\ In.phase = "team-verify"
    /\ call.next = "cancelled"
    /\ ~ call.ok
    /\ call.reason = Some("Illegal transition: team-verify -> cancelled")
    /\ state = In

----------------------------------------------------------------------------
(* C28 *)

NonTerminal(phase) == phase \notin {"complete", "failed", "cancelled"}

\* markTeamPhase was called directly on a complete, failed or cancelled
\* document with a non-terminal target.
MarkedOutOfTerminal ==
    /\ Direct
    /\ In.phase \in {"complete", "failed", "cancelled"}
    /\ ~ In.active
    /\ In.completed_at # NULL
    /\ NonTerminal(call.next)

StillInactive ==
    /\ ~ state.active
    /\ state.completed_at # NULL

NeverReactivates ==
    Direct =>
        /\ state.active => In.active
        /\ In.completed_at # NULL => state.completed_at # NULL

\* The attempt count the call arrives at is within the budget.
WithinBudget ==
    In.fix_loop.attempt + (IF call.next = "team-fix" THEN 1 ELSE 0)
        <= In.fix_loop.max_attempts

\* C28 as written: markTeamPhase never sets active to true and never clears
\* completed_at; called directly on a complete, failed or cancelled document
\* with a non-terminal target it returns ok:true with the non-terminal phase
\* while active stays false and completed_at stays non-null, so "active is
\* false iff the phase is terminal" holds only when every phase change goes
\* through transitionTeamPhase or requestTeamCancel.
C28_Original ==
    /\ NeverReactivates
    /\ MarkedOutOfTerminal =>
           /\ call.ok
           /\ state.phase = call.next
           /\ StillInactive

\* C28 (amended): as C28, provided the retry budget allows the call
\* (fix_loop.attempt, plus 1 for target team-fix, is at most max_attempts);
\* otherwise the call returns ok:false "Fix loop exceeded max_attempts" and
\* a failed document, active still false and completed_at non-null.
C28_MarkNeverReactivates ==
    /\ NeverReactivates
    /\ MarkedOutOfTerminal =>
           IF WithinBudget
           THEN /\ call.ok
                /\ state.phase = call.next
                /\ StillInactive
                /\ ~ (~ state.active <=>
                          state.phase \in {"complete", "failed", "cancelled"})
           ELSE /\ BoundViolation
                /\ state.phase = "failed"
                /\ StillInactive

\* A completed document has been marked team-exec directly: it is in
\* team-exec, inactive, with completed_at set.
C28_Witness ==
    /\ MarkedOutOfTerminal
    /\ In.phase = "complete"
    /\ call.next = "team-exec"
    /\ call.ok
    /\ state.phase = "team-exec"
    /\ StillInactive

----------------------------------------------------------------------------
(* C30 *)

\* A cancelled document has been cancelled once more.
CancelledAgain ==
    /\ call.op = "cancel"
    /\ In.phase = "cancelled"
    /\ In.cancel.requested

LastPreserve == call.preserve \in {NULL, Some(TRUE)}

\* The second cancel is not idempotent.
CancelOverwrites ==
    /\ state # In
    /\ state.cancel.preserve_for_resume = LastPreserve
    /\ state.cancel.requested_at = Some(Now)
    /\ state.cancel.requested_at # In.cancel.requested_at
    /\ Grown(1)
    /\ Last(state.phase_history).phase = "cancelled"
    /\ Last(In.phase_history).phase = "cancelled"

ResumeRefusedAfter(r) ==
    /\ ~ r.ok
    /\ r.reason = ResumeText
    /\ r.state = state

ResumeSucceedsAfter(r, target) ==
    /\ r.ok
    /\ r.state.phase = target
    /\ r.state.active

----------------------------------------------------------------------------
(* C29 *)

\* A write of one of the two mutators that the repository accepted.
RaceWritten == call.op = "write" /\ "by" \in DOMAIN call /\ call.ok

\* The stored document before the write, the stored document after it, and
\* the document the writer had read before it computed.
Overwritten == call.before[RaceKey][1]

StoredNow == store[RaceKey][1]

Snapshot == call.base[1]

CancelledEntries(s) ==
    Cardinality({ i \in 1..Len(s.phase_history) :
                    s.phase_history[i].phase = "cancelled" })

\* Nothing in the document tells that a cancel was ever requested.
NoTraceOfCancel(s) ==
    /\ s.phase # "cancelled"
    /\ ~ s.cancel.requested
    /\ CancelledEntries(s) = 0

\* The driver read before the cancel was stored and writes after it.
StaleDriverWrite ==
    /\ RaceWritten
    /\ call.by = "driver"
    /\ NoTraceOfCancel(Snapshot)
    /\ Overwritten.phase = "cancelled"

\* Nothing was written between the writer's read and its write: the
\* read-modify-write was atomic.
AtomicWrite == RaceWritten /\ Overwritten = Snapshot

CancelKept ==
    /\ IsPrefix(Overwritten.phase_history, StoredNow.phase_history)
    /\ CancelledEntries(StoredNow) >= CancelledEntries(Overwritten)
    /\ Overwritten.cancel.requested => StoredNow.cancel.requested

\* C29: the write takes no lock and compares no version: it stores the
\* writer's document whatever is stored.  The operator's write stores a
\* cancelled document with one more cancelled entry than it read.  A write of
\* the driver computed from a snapshot without a cancel, made when the stored
\* document is cancelled, leaves a stored document with a non-cancelled
\* phase, cancel.requested false and no cancelled history entry: the cancel
\* is lost.  A write made when the stored document is still the one the
\* writer read keeps the stored history, its cancelled entries and
\* cancel.requested.
C29_StaleWriteLosesCancel ==
    /\ RaceWritten =>
           StoredNow = Stamped(In, RaceSession, clock - 1)
    /\ (RaceWritten /\ call.by = "operator") =>
           /\ StoredNow.phase = "cancelled"
           /\ StoredNow.cancel.requested
           /\ CancelledEntries(StoredNow) = CancelledEntries(Snapshot) + 1
    /\ StaleDriverWrite => NoTraceOfCancel(StoredNow)
    /\ AtomicWrite => CancelKept

\* The driver read the planning document, the operator stored a cancel, and
\* the driver's accepted transition to team-prd replaced it.
C29_Witness ==
    /\ StaleDriverWrite
    /\ Overwritten.cancel.requested
    /\ CancelledEntries(Overwritten) = 1
    /\ Snapshot.phase = "team-plan"
    /\ In.phase = "team-prd"
    /\ StoredNow.phase = "team-prd"
    /\ NoTraceOfCancel(StoredNow)

====
